---------------------------- MODULE Spec2Model ----------------------------
(***************************************************************************)
(* A model of tf2-mixes/mixes-db: the roster and log store of SQLDb, the   *)
(* update() synchronisation run, the sorted merge-exclude scan, the        *)
(* SteamID codec, the logs.tf retry helper and the extraction of the       *)
(* performances of a player from a downloaded log.                         *)
(*                                                                         *)
(* Eight specifications share the variables of the module:                 *)
(*   Spec        the store and update() (src/src/sql_db.rs)                *)
(*   SpecTally   update() on a roster of two and an archive of three logs  *)
(*   SpecDedup   remove_external_occurrences, one loop iteration per step  *)
(*   SpecSteam   SteamID (src/src/steam_id.rs)                             *)
(*   SpecRetry   keep_trying, search_logs, Log::download (src/src/logs_tf) *)
(*   SpecExtract Performance::extract_all_from_json (src/src/performance)  *)
(*   SpecText    SteamID::from_str on texts of every form                  *)
(*   SpecQuery   get_class_performance (src/src/sql_db.rs)                 *)
(* Each leaves the variables of the others at their initial values.        *)
(***************************************************************************)
EXTENDS Integers, Sequences, FiniteSets, TLC

(***************************************************************************)
(* Bounds of the model.                                                    *)
(***************************************************************************)
\* logs the upstream archive publishes, ids 1..MaxLogs in publication order
MaxLogs == 2
\* length of the sequences handed to the merge-exclude scan in SpecDedup
MaxLen == 3
\* ids 0..MaxId in SpecDedup
MaxId == 3

\* the steam ids of the players that can be put on the roster, and the
\* discord ids they can be registered under
SteamIds == {1, 2}
DiscordIds == {1, 2}
\* the `players` field the archive reports for a published log
PlayerCounts == {0, 2, 4}
\* min_ratio arguments of update, as <<numerator, denominator>>: values an
\* f32 holds exactly, for which the f32 quotient of two u8 compares with
\* them as the exact quotient does; -1/2 lies outside [0, 1]
MinRatios == {<<-1, 2>>, <<0, 1>>, <<1, 2>>, <<1, 1>>}
\* num_players arguments of update, RangeInclusive<u8> as <<start, end>>
Windows == {<<2, 4>>, <<0, 2>>}

(***************************************************************************)
(* Variables.                                                              *)
(***************************************************************************)
VARIABLES
    \* ---- the database (sql_db.rs, init_tables)
    users,        \* table users: set of [steam_id, discord_id]
    logs,         \* table logs: set of log ids (PRIMARY KEY log_id)
    stats,        \* tables overall_stats, dm_stats, med_stats: id -> number
                  \* of performance rows stored with that log_id
    \* ---- the upstream archive
    upstream,     \* sequence, index = log id: [num_players, participants]
    \* ---- one update() run
    pc,           \* "idle" | "fetch" | "download" | "returned"
    min_ratio,    \* argument of update
    num_players,  \* argument of update
    user_ids,     \* users still to be searched (the for loop of line 265)
    known_logs,   \* known_logs() as read at line 258
    new_logs,     \* the HashMap of line 264: id -> [meta, occ]
    to_download,  \* entries of new_logs the loop of line 308 has not visited
    result,       \* how the run ended: "none" | "ok" | "err" | "panic"
    \* ---- history of the run and of the store
    admitted,     \* keys of new_logs after the drain_filter of line 294
    downloaded,   \* id -> number of Log::download calls of this run
    add_log_calls,\* id -> number of add_log calls of this run
    writes,       \* id -> number of rows ever inserted into logs for it
    repeat,       \* this run repeats a completed run on unchanged data
    clean,        \* thresholds of the last completed run while no other
                  \* operation was called since, else <<>>
    aborted,      \* the last run if it panicked and no other operation was
                  \* called since: [on, min_ratio, num_players, kept, left]
    resumed,      \* the aborted run this run repeats, else <<>>
    roster_call,  \* the last operation, if it was an add_user or a
                  \* remove_user call, and what it returned:
                  \* [op, steam_id, discord_id, ret]
    \* ---- SpecDedup: one call of remove_external_occurrences
    d_pc,         \* "off" | "scan" | "returned"
    d_input,      \* target as passed in
    d_check,      \* check
    d_st,         \* [target, target_i, check_i, steps]
    \* ---- SpecSteam: one 64-bit value through the SteamID codec
    s_pc,         \* "off" | "on"
    s_x,          \* the raw u64, as the set of the positions of its 1 bits
    s_dec,        \* SteamID::new_checked(s_x), or NoResult
    s_enc,        \* from_parts of the decoded fields, or NoResult
    s_text,       \* to_id3_string of the decoded id, or <<>>
    s_parsed,     \* SteamID::from_str(s_text), or NoResult
    \* ---- SpecRetry: one call of search_logs or Log::download
    r_pc,         \* "off" | "idle" | "delay" | "send" | "check" | "done"
    r_op,         \* "none" | "search" | "download"
    overflow_checks, \* the build panics on integer overflow (debug) or wraps
    num_retries,  \* argument of keep_trying
    num_tries,    \* local of keep_trying
    r_res,        \* the result of the last attempt
    r_result,     \* what the operation returned: "none" | "ok" | "err" | "panic"
    r_calls,      \* attempts made (invocations of the action)
    r_delayed,    \* log_delay has run since the last request
    r_undelayed,  \* requests sent with no log_delay before them
    \* ---- SpecExtract: one call of Performance::extract_all_from_json
    e_pc,         \* "off" | "in" | "done"
    e_score,      \* the Score of the log: [red, blue]
    e_json,       \* the raw record of one player, json["players"][id]
    e_out,        \* what the call returned: [kind, entries]
    \* ---- SpecText: one call of SteamID::from_str
    t_pc,         \* "off" | "id" | "text" | "done"
    t_src,        \* the SteamID the text was written from, or NoResult
    t_text,       \* the argument of from_str
    t_res,        \* what from_str returned, or NoResult
    \* ---- SpecQuery: one call of get_class_performance
    q_pc,         \* "off" | "call" | "collect" | "done"
    dm_stats,     \* table dm_stats: set of [log_id, steam_id, class]
    q_call,       \* the arguments: [user, class, limit]
    q_log_ids,    \* log_ids the for loop of line 343 has not visited
    q_performances, \* the HashMap of line 342: id -> rows collected
    q_res         \* what the call returned: [kind, map]

syncVars == <<users, logs, stats, upstream, pc, min_ratio, num_players,
              user_ids, known_logs, new_logs, to_download, result,
              admitted, downloaded, add_log_calls, writes, repeat, clean,
              aborted, resumed, roster_call>>

dedupVars == <<d_pc, d_input, d_check, d_st>>

steamVars == <<s_pc, s_x, s_dec, s_enc, s_text, s_parsed>>

retryVars == <<r_pc, r_op, overflow_checks, num_retries, num_tries, r_res,
               r_result, r_calls, r_delayed, r_undelayed>>

extractVars == <<e_pc, e_score, e_json, e_out>>

textVars == <<t_pc, t_src, t_text, t_res>>

queryVars == <<q_pc, dm_stats, q_call, q_log_ids, q_performances, q_res>>

vars == <<syncVars, dedupVars, steamVars, retryVars, extractVars, textVars,
          queryVars>>

\* what the actions of Spec leave alone
notSync == <<dedupVars, steamVars, retryVars, extractVars, textVars,
            queryVars>>
\* what the actions of SpecDedup leave alone
notDedup == <<syncVars, steamVars, retryVars, extractVars, textVars,
            queryVars>>
\* what the actions of SpecSteam leave alone
notSteam == <<syncVars, dedupVars, retryVars, extractVars, textVars,
            queryVars>>
\* what the actions of SpecRetry leave alone
notRetry == <<syncVars, dedupVars, steamVars, extractVars, textVars,
            queryVars>>
\* what the actions of SpecExtract leave alone
notExtract == <<syncVars, dedupVars, steamVars, retryVars, textVars,
            queryVars>>
\* what the actions of SpecQuery leave alone
notQuery == <<syncVars, dedupVars, steamVars, retryVars, extractVars,
              textVars>>
\* what the actions of SpecText leave alone
notText == <<syncVars, dedupVars, steamVars, retryVars, extractVars,
            queryVars>>

(***************************************************************************)
(* Helpers on sets and sequences.                                          *)
(***************************************************************************)
Range(s) == {s[i] : i \in DOMAIN s}

MaxOf(S) == CHOOSE x \in S : \A y \in S : y <= x

RECURSIVE DescSeq(_)
\* the elements of a finite set of integers, greatest first
DescSeq(S) == IF S = {} THEN <<>>
              ELSE LET m == MaxOf(S) IN <<m>> \o DescSeq(S \ {m})

RECURSIVE SelectSeqBy(_, _)
\* Vec::drain_filter with the removed elements dropped: keeps, in order,
\* the elements whose index is in keep
SelectSeqBy(s, keep) ==
    IF s = <<>> THEN <<>>
    ELSE LET n == Len(s)
             front == SelectSeqBy(SubSeq(s, 1, n - 1), keep)
         IN IF n \in keep THEN Append(front, s[n]) ELSE front

RemoveAt(s, i) == SubSeq(s, 1, i - 1) \o SubSeq(s, i + 1, Len(s))

(***************************************************************************)
(* remove_external_occurrences (sql_db.rs 446-471).  The scan state is     *)
(* [target, target_i, check_i, steps]; the indexes are one-indexed as in   *)
(* the source, steps counts the comparisons.                               *)
(***************************************************************************)
ReoStart(target, check) ==
    [target |-> target, target_i |-> Len(target), check_i |-> Len(check),
     steps |-> 0]

\* mutant of ReoDone: the loop condition takes the one-indexed target_i for
\* a zero-indexed one and stops before the first element
ReoDoneOffByOne(st, check) ==
    \/ Len(check) = 0
    \/ st.steps = 0 /\ Len(st.target) = 0
    \/ st.target_i <= 1
    \/ st.check_i = 0

\* the early return of line 448 and the loop condition of line 461
ReoDone(st, check) ==
    \/ Len(check) = 0
    \/ st.steps = 0 /\ Len(st.target) = 0
    \/ st.target_i = 0
    \/ st.check_i = 0

\* mutant of ReoStep: the opposite advance rule on a mismatch
ReoStepReversed(st, check) ==
    LET t == st.target[st.target_i].id
        c == check[st.check_i]
    IN IF t = c
       THEN [st EXCEPT !.target = RemoveAt(st.target, st.target_i),
                       !.target_i = st.target_i - 1,
                       !.steps = st.steps + 1]
       ELSE IF t < c
       THEN [st EXCEPT !.check_i = st.check_i - 1, !.steps = st.steps + 1]
       ELSE [st EXCEPT !.target_i = st.target_i - 1, !.steps = st.steps + 1]

\* mutant of ReoStep: on equal ids the index into check moves on as well
ReoStepBothAdvance(st, check) ==
    LET t == st.target[st.target_i].id
        c == check[st.check_i]
    IN IF t = c
       THEN [st EXCEPT !.target = RemoveAt(st.target, st.target_i),
                       !.target_i = st.target_i - 1,
                       !.check_i = st.check_i - 1,
                       !.steps = st.steps + 1]
       ELSE IF t < c
       THEN [st EXCEPT !.target_i = st.target_i - 1, !.steps = st.steps + 1]
       ELSE [st EXCEPT !.check_i = st.check_i - 1, !.steps = st.steps + 1]

\* one iteration of the loop, lines 462-469
ReoStep(st, check) ==
    LET t == st.target[st.target_i].id
        c == check[st.check_i]
    IN IF t = c
       THEN [st EXCEPT !.target = RemoveAt(st.target, st.target_i),
                       !.target_i = st.target_i - 1,
                       !.steps = st.steps + 1]
       ELSE IF t < c
       THEN [st EXCEPT !.target_i = st.target_i - 1, !.steps = st.steps + 1]
       ELSE [st EXCEPT !.check_i = st.check_i - 1, !.steps = st.steps + 1]

RECURSIVE ReoRun(_, _)
ReoRun(st, check) ==
    IF ReoDone(st, check) THEN st ELSE ReoRun(ReoStep(st, check), check)

remove_external_occurrences(target, check) ==
    ReoRun(ReoStart(target, check), check).target

DedupOff ==
    /\ d_pc = "off"
    /\ d_input = <<>>
    /\ d_check = <<>>
    /\ d_st = ReoStart(<<>>, <<>>)

(***************************************************************************)
(* The upstream archive as update() sees it.                               *)
(***************************************************************************)
LogMetadata(id) == [id |-> id, num_players |-> upstream[id].num_players]

\* search_logs(SearchParams::player_id(u)): the logs u took part in, newest
\* first (logs.tf orders by id descending)
SearchResult(u) ==
    LET ids == DescSeq({i \in DOMAIN upstream : u \in upstream[i].participants})
    IN [k \in DOMAIN ids |-> LogMetadata(ids[k])]

(***************************************************************************)
(* The store.                                                              *)
(***************************************************************************)
\* mutant of KnownLogs: ORDER BY log_id ASC
KnownLogsAsc ==
    LET d == DescSeq(logs) IN [k \in DOMAIN d |-> d[Len(d) + 1 - k]]

\* known_logs (sql_db.rs 85-93): SELECT log_id FROM logs ORDER BY log_id DESC
KnownLogs == DescSeq(logs)

\* users (sql_db.rs 240-251)
Users == {u.steam_id : u \in users}

\* the performances of a downloaded log (log.rs 86-93), counted one for each
\* player of the log the model names; add_log inserts one row for each
Performances(id) == Cardinality(upstream[id].participants)

\* an archive of three logs, ids 1, 2, 3 for the logs 99, 102, 105 of players
\* A = 1 and B = 2: A took part in all three, B in 99 and 105; 102 had 12
\* players, the others 4
ExampleArchive ==
    <<[num_players |-> 4, participants |-> {1, 2}],
      [num_players |-> 12, participants |-> {1}],
      [num_players |-> 4, participants |-> {1, 2}]>>

\* the log ids the counters of the model are kept for
CountedIds ==
    1..(IF MaxLogs >= Len(ExampleArchive) THEN MaxLogs ELSE Len(ExampleArchive))

NoCalls == [i \in CountedIds |-> 0]

NoAbort == [on |-> FALSE, min_ratio |-> <<0, 1>>, num_players |-> <<0, 0>>,
            kept |-> {}, left |-> {}]

NoRosterCall == [op |-> "none", steam_id |-> 0, discord_id |-> 0,
                 ret |-> "none"]

\* the roster players among the players of a published log
Occurrences(id) == Cardinality(Users \cap upstream[id].participants)

\* the logs a run with these thresholds is to admit, by the two gates of the
\* documentation of update (database.rs 44-59), from the archive, the roster
\* and the stored logs as they are now
Eligible(ratio, window) ==
    {id \in DOMAIN upstream :
        /\ id \notin logs
        /\ Occurrences(id) >= 1
        /\ window[1] <= upstream[id].num_players
        /\ upstream[id].num_players <= window[2]
        /\ upstream[id].num_players # 0
        /\ Occurrences(id) * ratio[2] >= ratio[1] * upstream[id].num_players}

NoRun ==
    /\ pc = "idle"
    /\ min_ratio = <<0, 1>>
    /\ num_players = <<0, 0>>
    /\ user_ids = {}
    /\ known_logs = <<>>
    /\ new_logs = <<>>
    /\ to_download = {}
    /\ result = "none"
    /\ admitted = {}
    /\ downloaded = NoCalls
    /\ add_log_calls = NoCalls
    /\ repeat = FALSE
    /\ resumed = NoAbort

SyncInit ==
    /\ users = {}
    /\ logs = {}
    /\ stats = NoCalls
    /\ upstream = <<>>
    /\ writes = NoCalls
    /\ clean = <<>>
    /\ aborted = NoAbort
    /\ roster_call = NoRosterCall
    /\ NoRun

runVars == <<pc, min_ratio, num_players, user_ids, known_logs, new_logs,
             to_download, result, admitted, downloaded, add_log_calls,
             repeat, resumed>>

\* mutant of add_user: the SELECT looks for the steam id only
add_user_steam_only(steam_id, discord_id, db_ok) ==
    /\ pc = "idle"
    /\ IF ~db_ok
       THEN /\ roster_call' = [op |-> "add_user", steam_id |-> steam_id,
                               discord_id |-> discord_id, ret |-> "err"]
            /\ UNCHANGED users
       ELSE IF \A u \in users : u.steam_id # steam_id
       THEN /\ users' = users \cup {[steam_id |-> steam_id,
                                     discord_id |-> discord_id]}
            /\ roster_call' = [op |-> "add_user", steam_id |-> steam_id,
                               discord_id |-> discord_id, ret |-> "true"]
       ELSE /\ roster_call' = [op |-> "add_user", steam_id |-> steam_id,
                               discord_id |-> discord_id, ret |-> "false"]
            /\ UNCHANGED users
    /\ clean' = <<>>
    /\ aborted' = NoAbort
    /\ UNCHANGED <<logs, stats, upstream, writes, runVars>>
    /\ UNCHANGED notSync

\* add_user (sql_db.rs 193-219); ~db_ok: the SELECT or the INSERT fails and
\* the ? operator returns the error
add_user(steam_id, discord_id, db_ok) ==
    /\ pc = "idle"
    /\ IF ~db_ok
       THEN /\ roster_call' = [op |-> "add_user", steam_id |-> steam_id,
                               discord_id |-> discord_id, ret |-> "err"]
            /\ UNCHANGED users
       ELSE IF \A u \in users : u.steam_id # steam_id /\ u.discord_id # discord_id
       THEN /\ users' = users \cup {[steam_id |-> steam_id,
                                     discord_id |-> discord_id]}
            /\ roster_call' = [op |-> "add_user", steam_id |-> steam_id,
                               discord_id |-> discord_id, ret |-> "true"]
       ELSE /\ roster_call' = [op |-> "add_user", steam_id |-> steam_id,
                               discord_id |-> discord_id, ret |-> "false"]
            /\ UNCHANGED users
    /\ clean' = <<>>
    /\ aborted' = NoAbort
    /\ UNCHANGED <<logs, stats, upstream, writes, runVars>>
    /\ UNCHANGED notSync

\* remove_user (sql_db.rs 221-238); ~db_ok: the SELECT or the DELETE fails
remove_user(steam_id, db_ok) ==
    /\ pc = "idle"
    /\ IF ~db_ok
       THEN /\ roster_call' = [op |-> "remove_user", steam_id |-> steam_id,
                               discord_id |-> 0, ret |-> "err"]
            /\ UNCHANGED users
       ELSE IF \E u \in users : u.steam_id = steam_id
       THEN /\ users' = {u \in users : u.steam_id # steam_id}
            /\ roster_call' = [op |-> "remove_user", steam_id |-> steam_id,
                               discord_id |-> 0, ret |-> "true"]
       ELSE /\ roster_call' = [op |-> "remove_user", steam_id |-> steam_id,
                               discord_id |-> 0, ret |-> "false"]
            /\ UNCHANGED users
    /\ clean' = <<>>
    /\ aborted' = NoAbort
    /\ UNCHANGED <<logs, stats, upstream, writes, runVars>>
    /\ UNCHANGED notSync

\* the archive publishes a log; ids grow with time.  A run works on one
\* snapshot of the archive: logs are published between runs.
Publish(np, parts) ==
    /\ pc = "idle"
    /\ Len(upstream) < MaxLogs
    /\ upstream' = Append(upstream, [num_players |-> np, participants |-> parts])
    /\ clean' = <<>>
    /\ aborted' = NoAbort
    /\ roster_call' = NoRosterCall
    /\ UNCHANGED <<users, logs, stats, writes, runVars>>
    /\ UNCHANGED notSync

(***************************************************************************)
(* update (sql_db.rs 253-315).                                             *)
(***************************************************************************)
\* lines 256-264: users() and known_logs(); either query may fail, and the
\* ? operator then returns the error.  No statement of update looks at the
\* value of min_ratio before the closure of line 294.
UpdateStart(ratio, window, db_ok) ==
    /\ pc = "idle"
    /\ min_ratio' = ratio
    /\ num_players' = window
    /\ repeat' = (clean = <<ratio, window>>)
    /\ clean' = <<>>
    /\ aborted' = NoAbort
    /\ roster_call' = NoRosterCall
    /\ IF db_ok
       THEN /\ pc' = "fetch"
            /\ user_ids' = Users
            /\ known_logs' = KnownLogs
            /\ result' = "none"
            /\ resumed' = IF /\ aborted.on
                             /\ aborted.min_ratio = ratio
                             /\ aborted.num_players = window
                          THEN aborted ELSE NoAbort
       ELSE /\ pc' = "returned"
            /\ result' = "err"
            /\ UNCHANGED <<user_ids, known_logs, resumed>>
    /\ UNCHANGED <<users, logs, stats, upstream, writes, new_logs,
                   to_download, admitted, downloaded, add_log_calls>>
    /\ UNCHANGED notSync

\* mutant of InWindow: num_players as a half-open range
InWindowExclusive(np) == num_players[1] <= np /\ np < num_players[2]

\* line 274: the drain_filter on the player-count window
InWindow(np) == num_players[1] <= np /\ np <= num_players[2]

WindowFilter(recent) ==
    SelectSeqBy(recent, {k \in DOMAIN recent : InWindow(recent[k].num_players)})

RECURSIVE TallyInsertOnly(_, _)
\* mutant of Tally: a log that is in the map already is left as it is
TallyInsertOnly(map, recent) ==
    IF recent = <<>> THEN map
    ELSE LET log == Head(recent)
             next == IF log.id \in DOMAIN map
                     THEN map
                     ELSE [k \in DOMAIN map \cup {log.id} |->
                             IF k = log.id THEN [meta |-> log, occ |-> 1]
                             ELSE map[k]]
         IN TallyInsertOnly(next, Tail(recent))

RECURSIVE Tally(_, _)
\* lines 277-284: count the log in the map, or insert it with 1
Tally(map, recent) ==
    IF recent = <<>> THEN map
    ELSE LET log == Head(recent)
             next == IF log.id \in DOMAIN map
                     THEN [map EXCEPT ![log.id].occ = @ + 1]
                     ELSE [k \in DOMAIN map \cup {log.id} |->
                             IF k = log.id THEN [meta |-> log, occ |-> 1]
                             ELSE map[k]]
         IN Tally(next, Tail(recent))

\* lines 265-285, one iteration: search_logs(..).expect(..) panics when the
\* search still fails after its retries
FetchUser(u, search_ok) ==
    /\ pc = "fetch"
    /\ u \in user_ids
    /\ IF search_ok
       THEN /\ new_logs' = Tally(new_logs,
                  WindowFilter(remove_external_occurrences(SearchResult(u),
                                                           known_logs)))
            /\ user_ids' = user_ids \ {u}
            /\ UNCHANGED <<pc, result>>
       ELSE /\ pc' = "returned"
            /\ result' = "panic"
            /\ UNCHANGED <<new_logs, user_ids>>
    /\ UNCHANGED <<users, logs, stats, upstream, writes, min_ratio,
                   num_players, known_logs, to_download, admitted,
                   downloaded, add_log_calls, repeat, clean, aborted,
                   resumed, roster_call>>
    /\ UNCHANGED notSync

\* mutant of RatioRemoves: ratio <= min_ratio
RatioRemovesEqual(meta, occ) ==
    IF meta.num_players # 0
    THEN occ * min_ratio[2] <= min_ratio[1] * meta.num_players
    ELSE TRUE

\* lines 294-303: the closure of the drain_filter says which entries go;
\* ratio < min_ratio over the rationals, min_ratio = num/den with den > 0
RatioRemoves(meta, occ) ==
    IF meta.num_players # 0
    THEN occ * min_ratio[2] < min_ratio[1] * meta.num_players
    ELSE TRUE

\* lines 287-305, after the last user
Admit ==
    /\ pc = "fetch"
    /\ user_ids = {}
    /\ LET keep == {id \in DOMAIN new_logs :
                      ~RatioRemoves(new_logs[id].meta, new_logs[id].occ)}
       IN /\ new_logs' = [id \in keep |-> new_logs[id]]
          /\ admitted' = keep
          /\ to_download' = keep
    /\ pc' = "download"
    /\ UNCHANGED <<users, logs, stats, upstream, writes, min_ratio,
                   num_players, user_ids, known_logs, result, downloaded,
                   add_log_calls, repeat, clean, aborted, resumed,
                   roster_call>>
    /\ UNCHANGED notSync

\* add_log (sql_db.rs 95-175).  fail_at = 0: the INSERT into logs fails;
\* fail_at = k in 1..Performances(id): the INSERT of the k-th performance
\* row fails, after the row of the log and k - 1 performance rows were
\* inserted; fail_at = Performances(id) + 1: every INSERT succeeds.  The
\* primary key makes the INSERT of a stored log id fail.  The runs of the
\* model fail the first INSERT, the last one or none.
AddLogOutcome(id, fail_at) ==
    IF id \in logs \/ fail_at = 0 THEN "err_log"
    ELSE IF fail_at <= Performances(id) THEN "err_perf"
    ELSE "ok"

\* the performance rows add_log has inserted when it returns (lines 114-170;
\* every INSERT is its own statement, add_log opens no transaction)
AddLogRows(id, fail_at) ==
    IF AddLogOutcome(id, fail_at) = "err_log" THEN 0 ELSE fail_at - 1

\* mutant of DownloadAndAdd: a failed download is skipped and the loop goes on
DownloadAndAddSkips(id, download_ok, fail_at) ==
    /\ pc = "download"
    /\ id \in to_download
    /\ fail_at \in {0, Performances(id), Performances(id) + 1}
    /\ downloaded' = [downloaded EXCEPT ![id] = @ + 1]
    /\ IF ~download_ok
       THEN /\ to_download' = to_download \ {id}
            /\ UNCHANGED <<pc, result, logs, stats, writes, add_log_calls>>
       ELSE /\ add_log_calls' = [add_log_calls EXCEPT ![id] = @ + 1]
            /\ LET out == AddLogOutcome(id, fail_at)
               IN /\ logs' = IF out = "err_log" THEN logs ELSE logs \cup {id}
                  /\ stats' = [stats EXCEPT ![id] = @ + AddLogRows(id, fail_at)]
                  /\ writes' = IF out = "err_log" THEN writes
                               ELSE [writes EXCEPT ![id] = @ + 1]
                  /\ IF out = "ok"
                     THEN /\ to_download' = to_download \ {id}
                          /\ UNCHANGED <<pc, result>>
                     ELSE /\ pc' = "returned"
                          /\ result' = "err"
                          /\ UNCHANGED to_download
    /\ UNCHANGED <<users, upstream, min_ratio, num_players, user_ids,
                   known_logs, new_logs, admitted, repeat, clean, aborted,
                   resumed, roster_call>>
    /\ UNCHANGED notSync

\* lines 308-312, one iteration: Log::download(..).expect(..) panics when
\* the download fails, add_log's error is returned by ?
DownloadAndAdd(id, download_ok, fail_at) ==
    /\ pc = "download"
    /\ id \in to_download
    /\ fail_at \in {0, Performances(id), Performances(id) + 1}
    /\ downloaded' = [downloaded EXCEPT ![id] = @ + 1]
    /\ IF ~download_ok
       THEN /\ pc' = "returned"
            /\ result' = "panic"
            /\ UNCHANGED <<logs, stats, writes, to_download, add_log_calls>>
       ELSE /\ add_log_calls' = [add_log_calls EXCEPT ![id] = @ + 1]
            /\ LET out == AddLogOutcome(id, fail_at)
               IN /\ logs' = IF out = "err_log" THEN logs ELSE logs \cup {id}
                  /\ stats' = [stats EXCEPT ![id] = @ + AddLogRows(id, fail_at)]
                  /\ writes' = IF out = "err_log" THEN writes
                               ELSE [writes EXCEPT ![id] = @ + 1]
                  /\ IF out = "ok"
                     THEN /\ to_download' = to_download \ {id}
                          /\ UNCHANGED <<pc, result>>
                     ELSE /\ pc' = "returned"
                          /\ result' = "err"
                          /\ UNCHANGED to_download
    /\ UNCHANGED <<users, upstream, min_ratio, num_players, user_ids,
                   known_logs, new_logs, admitted, repeat, clean, aborted,
                   resumed, roster_call>>
    /\ UNCHANGED notSync

\* line 314: Ok(()) after the last download
Finish ==
    /\ pc = "download"
    /\ to_download = {}
    /\ pc' = "returned"
    /\ result' = "ok"
    /\ UNCHANGED <<users, logs, stats, upstream, writes, min_ratio,
                   num_players, user_ids, known_logs, new_logs, to_download,
                   admitted, downloaded, add_log_calls, repeat, clean,
                   aborted, resumed, roster_call>>
    /\ UNCHANGED notSync

\* the caller has the result; the locals of the run are gone
Return ==
    /\ pc = "returned"
    /\ clean' = IF result = "ok" THEN <<min_ratio, num_players>> ELSE <<>>
    /\ aborted' = IF result = "panic"
                  THEN [on |-> TRUE, min_ratio |-> min_ratio,
                        num_players |-> num_players,
                        kept |-> admitted \ to_download,
                        left |-> Eligible(min_ratio, num_players)]
                  ELSE NoAbort
    /\ pc' = "idle"
    /\ min_ratio' = <<0, 1>>
    /\ num_players' = <<0, 0>>
    /\ user_ids' = {}
    /\ known_logs' = <<>>
    /\ new_logs' = <<>>
    /\ to_download' = {}
    /\ result' = "none"
    /\ admitted' = {}
    /\ downloaded' = NoCalls
    /\ add_log_calls' = NoCalls
    /\ repeat' = FALSE
    /\ resumed' = NoAbort
    /\ UNCHANGED <<users, logs, stats, upstream, writes, roster_call>>
    /\ UNCHANGED notSync


Next ==
    \/ \E s \in SteamIds, d \in DiscordIds, ok \in BOOLEAN : add_user(s, d, ok)
    \/ \E s \in SteamIds, ok \in BOOLEAN : remove_user(s, ok)
    \/ \E np \in PlayerCounts, parts \in SUBSET SteamIds \ {{}} : Publish(np, parts)
    \/ \E r \in MinRatios, w \in Windows, ok \in BOOLEAN : UpdateStart(r, w, ok)
    \/ \E u \in SteamIds, ok \in BOOLEAN : FetchUser(u, ok)
    \/ Admit
    \/ \E id \in 1..MaxLogs, ok \in BOOLEAN, f \in 0..(Cardinality(SteamIds) + 1) :
          DownloadAndAdd(id, ok, f)
    \/ Finish
    \/ Return

(***************************************************************************)
(* SpecTally: update() on a roster of two players and an archive of three  *)
(* logs, of which the oldest may be stored already.                        *)
(***************************************************************************)
\* the archives tried: ExampleArchive, and its variations in the players
\* and the player count of the second log and the players of the third
TallyArchives ==
    {<<ExampleArchive[1],
       [num_players |-> np, participants |-> second],
       [num_players |-> ExampleArchive[3].num_players, participants |-> third]>> :
        np \in {ExampleArchive[1].num_players, ExampleArchive[2].num_players},
        second \in {{1}, {2}, {1, 2}},
        third \in {{1}, {1, 2}}}

TallyRatios == {<<0, 1>>, <<1, 2>>}
TallyWindows == {<<2, 4>>, <<2, 12>>}

\* players 1 and 2 are on the roster; the store is empty or holds log 1
\* with the rows of its players, as an earlier run left it
TallyInit ==
    /\ users = {[steam_id |-> u, discord_id |-> u] : u \in SteamIds}
    /\ upstream \in TallyArchives
    /\ logs \in {{}, {1}}
    /\ stats = [i \in CountedIds |->
                   IF i \in logs THEN Performances(i) ELSE 0]
    /\ writes = [i \in CountedIds |-> IF i \in logs THEN 1 ELSE 0]
    /\ clean = <<>>
    /\ aborted = NoAbort
    /\ roster_call = NoRosterCall
    /\ NoRun

(***************************************************************************)
(* SpecDedup: remove_external_occurrences on every pair of sequences       *)
(* sorted descending (equal neighbours allowed), one iteration per step.   *)
(***************************************************************************)
\* the sequences of length n over 0..MaxId, greatest first
DescSeqs(n) ==
    {s \in [1..n -> 0..MaxId] : \A i \in 1..(n - 1) : s[i] >= s[i + 1]}

DedupInputs == UNION {DescSeqs(n) : n \in 0..MaxLen}

\* a LogMetadata per id; num_players tells the elements of target apart
TargetOf(ids) == [k \in DOMAIN ids |-> [id |-> ids[k], num_players |-> k]]

DedupInit ==
    /\ d_pc = "scan"
    /\ d_input \in {TargetOf(ids) : ids \in DedupInputs}
    /\ d_check \in DedupInputs
    /\ d_st = ReoStart(d_input, d_check)

DedupStep ==
    /\ d_pc = "scan"
    /\ ~ReoDone(d_st, d_check)
    /\ d_st' = ReoStep(d_st, d_check)
    /\ UNCHANGED <<d_pc, d_input, d_check>>
    /\ UNCHANGED notDedup

DedupReturn ==
    /\ d_pc = "scan"
    /\ ReoDone(d_st, d_check)
    /\ d_pc' = "returned"
    /\ UNCHANGED <<d_input, d_check, d_st>>
    /\ UNCHANGED notDedup


NextDedup == DedupStep \/ DedupReturn

(***************************************************************************)
(* SteamID (steam_id.rs).  A u64 or u32 is the set of the positions of its *)
(* 1 bits, so that masks and shifts are those of the source.               *)
(***************************************************************************)
BitsOf(n) == {i \in 0..30 : (n \div (2 ^ i)) % 2 = 1}

RECURSIVE ToNat(_)
\* the number a set of bit positions below 31 stands for
ToNat(x) == IF x = {} THEN 0
            ELSE LET i == CHOOSE j \in x : TRUE IN (2 ^ i) + ToNat(x \ {i})

And(x, y) == x \cap y
Or(x, y) == x \cup y
Shl(x, k) == {i + k : i \in x} \cap (0..63)
Shr(x, k) == {i - k : i \in x} \cap (0..63)
\* u32 << k
Shl32(x, k) == {i + k : i \in x} \cap (0..31)
\* `as u8`, `as u32`
AsU8(x) == x \cap (0..7)
AsU32(x) == x \cap (0..31)

ACCOUNT_INSTANCE_OFFSET_BITS == 32
ACCOUNT_INSTANCE_MASK == Shl(BitsOf(1048575), ACCOUNT_INSTANCE_OFFSET_BITS)
ACCOUNT_TYPE_OFFSET_BITS == 52
UNIVERSE_OFFSET_BITS == 56

\* the discriminants of enum Universe and enum AccountType
Universes == 0..5
Public == 1
AccountTypes == (0..8) \cup {10}

\* Universe::from_u8, AccountType::from_u8 (derive Primitive): the value
\* or None
None == -1
Universe_from_u8(b) == IF b \in Universes THEN b ELSE None
AccountType_from_u8(b) == IF b \in AccountTypes THEN b ELSE None

\* impl Into<char> for AccountType
AccountTypeChar(t) ==
    CASE t = 0 -> "I" [] t = 1 -> "U" [] t = 2 -> "M" [] t = 3 -> "G"
      [] t = 4 -> "A" [] t = 5 -> "P" [] t = 6 -> "C" [] t = 7 -> "g"
      [] t = 8 -> "c" [] t = 10 -> "a"

\* impl TryFrom<char> for AccountType: the value or None
AccountType_try_from(c) ==
    CASE c = "I" -> 0 [] c = "U" -> 1 [] c = "M" -> 2 [] c = "G" -> 3
      [] c = "A" -> 4 [] c = "P" -> 5 [] c = "C" -> 6 [] c = "g" -> 7
      [] c \in {"T", "L", "c"} -> 8 [] c = "a" -> 10
      [] OTHER -> None

\* results: Ok(SteamID), Err(()), or a panic
NoResult == [kind |-> "none", id64 |-> {}]
Ok(id64) == [kind |-> "ok", id64 |-> id64]
Err == [kind |-> "err", id64 |-> {}]
Panic == [kind |-> "panic", id64 |-> {}]

try_for_universe(id64) ==
    Universe_from_u8(ToNat(AsU8(
        Shr(And(id64, Shl(BitsOf(255), UNIVERSE_OFFSET_BITS)),
            UNIVERSE_OFFSET_BITS))))

try_for_account_type(id64) ==
    AccountType_from_u8(ToNat(AsU8(
        Shr(And(id64, Shl(BitsOf(15), ACCOUNT_TYPE_OFFSET_BITS)),
            ACCOUNT_TYPE_OFFSET_BITS))))

\* mutant of new_checked: the account instance is not checked
new_checked_no_instance(id64) ==
    IF /\ try_for_universe(id64) # None
       /\ try_for_account_type(id64) # None
    THEN Ok(id64)
    ELSE Err

new_checked(id64) ==
    IF /\ try_for_universe(id64) # None
       /\ try_for_account_type(id64) # None
       /\ And(id64, ACCOUNT_INSTANCE_MASK)
             = Shl(BitsOf(1), ACCOUNT_INSTANCE_OFFSET_BITS)
    THEN Ok(id64)
    ELSE Err

\* mutant of from_parts: the account type is shifted to the universe's place
from_parts_type_at_universe(universe, account_type, id) ==
    Or(Or(Or(id, Shl(BitsOf(1), ACCOUNT_INSTANCE_OFFSET_BITS)),
          Shl(BitsOf(account_type), UNIVERSE_OFFSET_BITS)),
       Shl(BitsOf(universe), UNIVERSE_OFFSET_BITS))

\* from_parts(universe, account_type, id: u32), the id64 of the result
from_parts(universe, account_type, id) ==
    Or(Or(Or(id, Shl(BitsOf(1), ACCOUNT_INSTANCE_OFFSET_BITS)),
          Shl(BitsOf(account_type), ACCOUNT_TYPE_OFFSET_BITS)),
       Shl(BitsOf(universe), UNIVERSE_OFFSET_BITS))

\* universe(self), account_type(self): expect() on the try_ functions
universe(id64) == try_for_universe(id64)
account_type(id64) == try_for_account_type(id64)

(***************************************************************************)
(* Text.  A string is the sequence of its characters.                      *)
(***************************************************************************)
Digits == <<"0", "1", "2", "3", "4", "5", "6", "7", "8", "9">>

IsDigit(c) == \E d \in 1..10 : Digits[d] = c
DigitValue(c) == (CHOOSE d \in 1..10 : Digits[d] = c) - 1

RECURSIVE ToDecimal(_)
\* u32::to_string
ToDecimal(n) == IF n < 10 THEN <<Digits[n + 1]>>
                ELSE Append(ToDecimal(n \div 10), Digits[(n % 10) + 1])

\* acc * 10 + d on little-endian 16-bit limbs; over: the result does not fit
MulAdd10(limbs, d) ==
    LET n == Len(limbs)
        t[i \in 1..n] == limbs[i] * 10
                           + (IF i = 1 THEN d ELSE t[i - 1] \div 65536)
    IN [limbs |-> [i \in 1..n |-> t[i] % 65536], over |-> t[n] >= 65536]

RECURSIVE ParseDigits(_, _)
\* the digits str read into limbs, or <<>> on a non-digit or an overflow
ParseDigits(str, limbs) ==
    IF str = <<>> THEN limbs
    ELSE IF ~IsDigit(Head(str)) THEN <<>>
    ELSE LET r == MulAdd10(limbs, DigitValue(Head(str)))
         IN IF r.over THEN <<>> ELSE ParseDigits(Tail(str), r.limbs)

LimbsToBits(limbs) ==
    UNION {{16 * (j - 1) + i : i \in BitsOf(limbs[j])} : j \in DOMAIN limbs}

\* str::parse::<u32>() (nlimbs = 2) and str::parse::<u64>() (nlimbs = 4):
\* an optional + and at least one digit; [ok, bits]
ParseUnsigned(str, nlimbs) ==
    LET body == IF str # <<>> /\ Head(str) = "+" THEN Tail(str) ELSE str
        limbs == ParseDigits(body, [i \in 1..nlimbs |-> 0])
    IN IF body = <<>> \/ limbs = <<>>
       THEN [ok |-> FALSE, bits |-> {}]
       ELSE [ok |-> TRUE, bits |-> LimbsToBits(limbs)]

RECURSIVE Split(_, _)
\* str::split(sep).collect::<Vec<&str>>()
Split(str, sep) ==
    IF \A i \in DOMAIN str : str[i] # sep THEN <<str>>
    ELSE LET i == CHOOSE j \in DOMAIN str :
                      str[j] = sep /\ \A k \in 1..(j - 1) : str[k] # sep
         IN <<SubSeq(str, 1, i - 1)>> \o Split(SubSeq(str, i + 1, Len(str)), sep)

StartsWith(str, prefix) ==
    Len(str) >= Len(prefix) /\ SubSeq(str, 1, Len(prefix)) = prefix
EndsWith(str, c) == str # <<>> /\ str[Len(str)] = c

to_id3_string(id64) ==
    LET id == AsU32(id64)
    IN <<"[", AccountTypeChar(account_type(id64)), ":">>
         \o ToDecimal(ToNat(And(id, BitsOf(1))))
         \o <<":">>
         \o ToDecimal(ToNat(Shr(id, 1)))
         \o <<"]">>

\* the ID3 branch of from_str, lines 145-163
from_str_id3(s) ==
    LET parts == Split(s, ":")
    IN IF Len(parts) = 3 /\ Len(parts[1]) = 2 /\ Len(parts[2]) = 1
       THEN LET lowest_bit == ParseUnsigned(parts[2], 2)
                \* parts[2][..s.len() - 1]: the end of the range is the
                \* length of s, not of parts[2]
                slice_end == Len(s) - 1
                upper == ParseUnsigned(SubSeq(parts[3], 1, slice_end), 2)
                account_type_ == AccountType_try_from(parts[1][2])
            IN IF ~lowest_bit.ok THEN Err
               ELSE IF \E i \in lowest_bit.bits : i >= 1 THEN Err
               ELSE IF slice_end > Len(parts[3]) THEN Panic
               ELSE IF ~upper.ok THEN Err
               ELSE IF account_type_ = None THEN Err
               ELSE Ok(from_parts(Public, account_type_,
                                  Or(Shl32(upper.bits, 1), lowest_bit.bits)))
       ELSE Err

\* impl FromStr for SteamID, lines 136-173
from_str(s) ==
    LET id64 == ParseUnsigned(s, 4)
    IN IF id64.ok THEN new_checked(id64.bits)
       ELSE IF StartsWith(s, <<"[">>) /\ EndsWith(s, "]") THEN from_str_id3(s)
       ELSE IF StartsWith(s, <<"S", "T", "E", "A", "M", "_">>) THEN Panic
       ELSE Err

(***************************************************************************)
(* SpecSteam: new_checked on a raw value, then from_parts on its fields    *)
(* and from_str on its ID3 text.                                           *)
(***************************************************************************)
\* the 16-bit words the raw values are put together from; the top word
\* holds the universe, the account type and the top of the instance
TopWords == {u * 256 + t * 16 + h :
                u \in {0, 1, 5, 6, 255}, t \in {0, 1, 8, 9, 10, 15}, h \in {0, 1}}
InstanceWords == {0, 1, 2}
HighWords == {0, 1, 65535}
LowWords == {0, 1, 2, 3, 65535}

SteamInputs ==
    {LimbsToBits(<<w0, w1, w2, w3>>) :
        w0 \in LowWords, w1 \in HighWords, w2 \in InstanceWords, w3 \in TopWords}

SteamOff ==
    /\ s_pc = "off"
    /\ s_x = {}
    /\ s_dec = NoResult
    /\ s_enc = NoResult
    /\ s_text = <<>>
    /\ s_parsed = NoResult

SteamInit ==
    /\ s_pc = "on"
    /\ s_x \in SteamInputs
    /\ s_dec = NoResult
    /\ s_enc = NoResult
    /\ s_text = <<>>
    /\ s_parsed = NoResult

\* SteamID::new_checked(s_x)
Decode ==
    /\ s_pc = "on"
    /\ s_dec = NoResult
    /\ s_dec' = new_checked(s_x)
    /\ UNCHANGED <<s_pc, s_x, s_enc, s_text, s_parsed>>
    /\ UNCHANGED notSteam

\* SteamID::from_parts(id.universe(), id.account_type(), id.id64 as u32)
Encode ==
    /\ s_dec.kind = "ok"
    /\ s_enc = NoResult
    /\ s_enc' = Ok(from_parts(universe(s_dec.id64), account_type(s_dec.id64),
                              AsU32(s_dec.id64)))
    /\ UNCHANGED <<s_pc, s_x, s_dec, s_text, s_parsed>>
    /\ UNCHANGED notSteam

\* id.to_id3_string()
ToId3 ==
    /\ s_dec.kind = "ok"
    /\ s_text = <<>>
    /\ s_text' = to_id3_string(s_dec.id64)
    /\ UNCHANGED <<s_pc, s_x, s_dec, s_enc, s_parsed>>
    /\ UNCHANGED notSteam

\* SteamID::from_str(&text)
Parse ==
    /\ s_text # <<>>
    /\ s_parsed = NoResult
    /\ s_parsed' = from_str(s_text)
    /\ UNCHANGED <<s_pc, s_x, s_dec, s_enc, s_text>>
    /\ UNCHANGED notSteam

(***************************************************************************)
(* logs_tf: keep_trying, log_delay, search_logs, Log::download.            *)
(***************************************************************************)
\* u8::MAX, the type of num_retries and num_tries
U8Max == 255
\* the attempt counter of the model stops counting here
CallsCap == U8Max + 3

\* the num_retries arguments tried: small ones, the 5 of sql_db.rs, and
\* the two greatest
RetryCounts == {0, 1, 2, 5, U8Max - 1, U8Max}

\* what the archive does with one request
Outcomes == {"ok", "http", "malformed", "unsuccessful"}

\* u8 + 1: the sum, or None where the build panics on overflow
AddOneU8(n) ==
    IF n + 1 <= U8Max THEN n + 1
    ELSE IF overflow_checks THEN None ELSE 0

RetryOff ==
    /\ r_pc = "off"
    /\ r_op = "none"
    /\ overflow_checks = FALSE
    /\ num_retries = 0
    /\ num_tries = 0
    /\ r_res = "none"
    /\ r_result = "none"
    /\ r_calls = 0
    /\ r_delayed = FALSE
    /\ r_undelayed = 0

RetryInit ==
    /\ r_pc = "idle"
    /\ r_op = "none"
    /\ overflow_checks \in BOOLEAN
    /\ num_retries = 0
    /\ num_tries = 0
    /\ r_res = "none"
    /\ r_result = "none"
    /\ r_calls = 0
    /\ r_delayed = FALSE
    /\ r_undelayed = 0

\* search_logs(search_params, n) (mod.rs 79-82): keep_trying is entered,
\* line 24
SearchLogs(n) ==
    /\ r_pc = "idle"
    /\ r_op' = "search"
    /\ num_retries' = n
    /\ num_tries' = 0
    /\ r_pc' = "delay"
    /\ UNCHANGED <<overflow_checks, r_res, r_result, r_calls, r_delayed,
                   r_undelayed>>
    /\ UNCHANGED notRetry

\* keep_trying line 26 calls the action, search_logs_once, which starts
\* with log_delay() (mod.rs 38, 58)
LogDelay ==
    /\ r_pc = "delay"
    /\ r_calls' = IF r_calls < CallsCap THEN r_calls + 1 ELSE r_calls
    /\ r_delayed' = TRUE
    /\ r_pc' = "send"
    /\ UNCHANGED <<r_op, overflow_checks, num_retries, num_tries, r_res,
                   r_result, r_undelayed>>
    /\ UNCHANGED notRetry

\* the attempt result of search_logs_once (mod.rs 60-70) for what the
\* archive answered: send()? and text()? return the transport error,
\* json::parse(..).unwrap() panics, check_json_success(..)? returns
\* Unsuccessful
SearchOnceResult(outcome) ==
    CASE outcome = "ok" -> "ok"
      [] outcome = "http" -> "err_http"
      [] outcome = "malformed" -> "panic"
      [] outcome = "unsuccessful" -> "err_unsuccessful"

\* search_logs_once, lines 60-70: the request goes out
SendSearch(outcome) ==
    /\ r_pc = "send"
    /\ r_undelayed' = IF r_delayed THEN r_undelayed ELSE 1
    /\ r_delayed' = FALSE
    /\ r_res' = SearchOnceResult(outcome)
    /\ IF SearchOnceResult(outcome) = "panic"
       THEN r_pc' = "done" /\ r_result' = "panic"
       ELSE r_pc' = "check" /\ UNCHANGED r_result
    /\ UNCHANGED <<r_op, overflow_checks, num_retries, num_tries, r_calls>>
    /\ UNCHANGED notRetry

\* keep_trying lines 27-31: count the try, return or go round again
KeepTryingCheck ==
    /\ r_pc = "check"
    /\ LET tries == AddOneU8(num_tries)
           limit == AddOneU8(num_retries)
       IN IF tries = None
          THEN /\ r_pc' = "done"
               /\ r_result' = "panic"
               /\ UNCHANGED num_tries
          ELSE /\ num_tries' = tries
               /\ IF r_res = "ok"
                  THEN r_pc' = "done" /\ r_result' = "ok"
                  ELSE IF limit = None
                  THEN r_pc' = "done" /\ r_result' = "panic"
                  ELSE IF tries > limit
                  THEN r_pc' = "done" /\ r_result' = "err"
                  ELSE r_pc' = "delay" /\ UNCHANGED r_result
    /\ UNCHANGED <<r_op, overflow_checks, num_retries, r_res, r_calls,
                   r_delayed, r_undelayed>>
    /\ UNCHANGED notRetry

\* the result of Log::download (log.rs 46-56) for what the archive
\* answered: get(..)? returns the transport error, json::parse(..)? the
\* parse error, check_json_success(..)? Unsuccessful
DownloadResult(outcome) ==
    CASE outcome = "ok" -> "ok"
      [] outcome = "http" -> "err_http"
      [] outcome = "malformed" -> "err_json"
      [] outcome = "unsuccessful" -> "err_unsuccessful"

\* Log::download(id) (log.rs 46-56), called as Log::download(meta.id, n)
\* at sql_db.rs 309: one request, and the function returns.  n is the
\* retry count of the caller, which log.rs has no parameter for.
Download(n, outcome) ==
    /\ r_pc = "idle"
    /\ r_op' = "download"
    /\ num_retries' = n
    /\ r_calls' = 1
    /\ r_undelayed' = IF r_delayed THEN r_undelayed ELSE 1
    /\ r_res' = DownloadResult(outcome)
    /\ r_result' = IF DownloadResult(outcome) = "ok" THEN "ok" ELSE "err"
    /\ r_pc' = "done"
    /\ UNCHANGED <<overflow_checks, num_tries, r_delayed>>
    /\ UNCHANGED notRetry

(***************************************************************************)
(* performance: the entries extracted from the raw record of one player.   *)
(* A JSON value that may be absent is a sequence: <<>> is what json[key]   *)
(* gives for a key the object does not have (JsonValue::Null), <<v>> is    *)
(* the value v.                                                            *)
(***************************************************************************)
Null == <<>>

\* JsonValue::as_u8, as_u16, as_u32: the number if the value is one and
\* fits the type, else None
as_u8(j) == IF j = Null \/ j[1] > U8Max THEN None ELSE j[1]
as_u16(j) == IF j = Null \/ j[1] > 65535 THEN None ELSE j[1]
as_u32(j) == IF j = Null THEN None ELSE j[1]
\* JsonValue::as_f32, on the whole numbers the model uses
as_f32(j) == IF j = Null THEN None ELSE j[1]

\* Option::unwrap_or(0)
unwrap_or_0(opt) == IF opt = None THEN 0 ELSE opt

\* Team::from_str (score.rs 49-61): trim, to_lowercase, match
Team_from_str(str) ==
    IF str \in {"Red", "red"} THEN "Red"
    ELSE IF str \in {"Blue", "blue"} THEN "Blue"
    ELSE "none"

\* Team::other (score.rs 40-47)
other(team) == IF team = "Red" THEN "Blue" ELSE "Red"

\* Score::get_score (score.rs 30-36)
get_score(score, team) == IF team = "Red" THEN score.red ELSE score.blue

\* u8 + u8: the sum, or None where the build panics on overflow
AddU8(a, b) ==
    IF a + b <= U8Max THEN a + b
    ELSE IF overflow_checks THEN None ELSE (a + b) % (U8Max + 1)

\* Class::from_str (class.rs 57-78), None for a name it does not know
Class_from_str(str) ==
    IF str \in {"demoman", "engineer", "medic", "pyro", "scout", "sniper",
                "soldier", "spy"}
    THEN str
    ELSE IF str \in {"heavy", "heavyweapons"} THEN "heavy"
    ELSE "none"

Panicked == [kind |-> "panic", entries |-> <<>>]

\* GenericPerformance::from_json (generic_performance.rs 17-31)
GenericPerformance_from_json(score, json) ==
    LET team == Team_from_str(json.team)
        won_rounds == get_score(score, team)
        lost_rounds == get_score(score, other(team))
        num_rounds == AddU8(won_rounds, lost_rounds)
        damage_taken == as_u32(json.dt)
    IN IF team = "none" \/ num_rounds = None \/ damage_taken = None
       THEN [kind |-> "panic"]
       ELSE [kind |-> "ok", won_rounds |-> won_rounds,
             num_rounds |-> num_rounds, damage_taken |-> damage_taken]

\* OverallPerformance::from_json (overall_performance.rs 23-47)
OverallPerformance_from_json(score, json) ==
    LET team == Team_from_str(json.team)
        won_rounds == get_score(score, team)
        lost_rounds == get_score(score, other(team))
        num_rounds == AddU8(won_rounds, lost_rounds)
    IN IF team = "none" \/ num_rounds = None
       THEN [kind |-> "panic"]
       ELSE [kind |-> "ok", won_rounds |-> won_rounds,
             num_rounds |-> num_rounds,
             damage |-> unwrap_or_0(as_u32(json.dmg)),
             damage_taken |-> unwrap_or_0(as_u32(json.dt)),
             kills |-> unwrap_or_0(as_u8(json.kills)),
             deaths |-> unwrap_or_0(as_u8(json.deaths)),
             num_medkits |-> unwrap_or_0(as_u16(json.medkits)),
             medkits_hp |-> unwrap_or_0(as_u32(json.medkits_hp))]

\* the closure of the map of dm_performance.rs 24-31 on one element: every
\* field is unwrapped
DMPerformance_of(class_stats) ==
    LET class == Class_from_str(class_stats.type)
        kills == as_u8(class_stats.kills)
        assists == as_u8(class_stats.assists)
        deaths == as_u8(class_stats.deaths)
        damage == as_u32(class_stats.dmg)
        time_played_secs == as_u32(class_stats.total_time)
    IN IF \/ class = "none"
          \/ None \in {kills, assists, deaths, damage, time_played_secs}
       THEN [kind |-> "panic"]
       ELSE [kind |-> "ok", class |-> class, kills |-> kills,
             assists |-> assists, deaths |-> deaths, damage |-> damage,
             time_played_secs |-> time_played_secs]

\* DMPerformance::extract_all_from_json (dm_performance.rs 20-33)
DMPerformance_extract_all_from_json(json) ==
    LET each == [k \in DOMAIN json.class_stats |->
                    DMPerformance_of(json.class_stats[k])]
    IN IF \E k \in DOMAIN each : each[k].kind = "panic"
       THEN Panicked
       ELSE [kind |-> "ok", entries |-> each]

\* MedicPerformance::extract_from_json (medic_performance.rs 20-41).  find
\* unwraps the class of the elements up to the first Medic one, or of all
\* of them
MedicPerformance_extract_from_json(json) ==
    LET cs == json.class_stats
        medics == {k \in DOMAIN cs : Class_from_str(cs[k].type) = "medic"}
        first == IF medics = {} THEN Len(cs) + 1
                 ELSE CHOOSE k \in medics : \A m \in medics : k <= m
    IN IF \E k \in DOMAIN cs : k <= first /\ Class_from_str(cs[k].type) = "none"
       THEN [kind |-> "panic"]
       ELSE IF json.medicstats = Null \/ medics = {}
       THEN [kind |-> "none"]
       ELSE [kind |-> "some",
             healing |-> unwrap_or_0(as_u32(json.heal)),
             average_uber_length_secs |->
                 unwrap_or_0(as_f32(json.medicstats[1].avg_uber_length)),
             num_ubers |-> unwrap_or_0(as_u8(json.ubers)),
             num_drops |-> unwrap_or_0(as_u8(json.drops)),
             deaths |-> unwrap_or_0(as_u8(cs[first].deaths)),
             time_played_secs |-> unwrap_or_0(as_u32(cs[first].total_time))]

\* mutant of Performance_from_parts: the Medic entry gets a generic part of
\* its own, without the damage taken
Performance_from_parts_own(kind, generic, specific) ==
    [kind |-> kind,
     generic |-> IF kind = "Med" THEN [generic EXCEPT !.damage_taken = 0]
                 ELSE generic,
     specific |-> specific]

\* Performance::from_parts (mod.rs 37-45)
Performance_from_parts(kind, generic, specific) ==
    [kind |-> kind, generic |-> generic, specific |-> specific]

\* Performance::extract_all_from_json (mod.rs 47-66): the entries of the
\* classes played, then the Medic entry if there is one
extract_all_from_json(score, json) ==
    LET generic_performance == GenericPerformance_from_json(score, json)
        dm_performances == DMPerformance_extract_all_from_json(json)
        med_performance == MedicPerformance_extract_from_json(json)
        performances ==
            [k \in DOMAIN dm_performances.entries |->
                Performance_from_parts("DM", generic_performance,
                                       dm_performances.entries[k])]
    IN IF \/ generic_performance.kind = "panic"
          \/ dm_performances.kind = "panic"
          \/ med_performance.kind = "panic"
       THEN Panicked
       ELSE IF med_performance.kind = "some"
       THEN [kind |-> "ok",
             entries |-> Append(performances,
                 Performance_from_parts("Med", generic_performance,
                                        med_performance))]
       ELSE [kind |-> "ok", entries |-> performances]

(***************************************************************************)
(* SpecExtract: extract_all_from_json on the record of one player.         *)
(***************************************************************************)
\* the scores of a team: small ones, and one whose double does not fit u8
ScoreValues == {0, 3, 200}

\* the elements of class_stats tried: a class, with or without its kills
\* and total_time counters
ClassStats ==
    [type : {"scout", "medic"}, kills : {Null, <<3>>}, assists : {<<1>>},
     deaths : {<<1>>}, dmg : {<<400>>}, total_time : {Null, <<600>>}]

\* class_stats: zero, one or two elements
ClassStatsBlocks ==
    {<<>>} \cup {<<a>> : a \in ClassStats}
           \cup {<<a, b>> : a \in ClassStats, b \in ClassStats}

\* the records of a player tried: the numbers of the example of the
\* documentation, with the counters dt, kills and heal present or not, with
\* or without a medicstats block
PlayerRecords ==
    [team : {"Red", "Blue"}, dt : {Null, <<300>>}, dmg : {<<500>>},
     kills : {Null, <<4>>}, deaths : {<<2>>}, heal : {Null, <<900>>},
     ubers : {<<2>>}, drops : {<<1>>}, medkits : {Null},
     medkits_hp : {Null},
     medicstats : {Null, <<[avg_uber_length |-> <<7>>]>>},
     class_stats : ClassStatsBlocks]

NoEntries == [kind |-> "none", entries |-> <<>>]

ExtractOff ==
    /\ e_pc = "off"
    /\ e_score = [red |-> 0, blue |-> 0]
    /\ e_json = <<>>
    /\ e_out = NoEntries

ExtractInit ==
    /\ e_pc = "in"
    /\ e_score \in [red : ScoreValues, blue : ScoreValues]
    /\ e_json \in PlayerRecords
    /\ e_out = NoEntries

\* Performance::extract_all_from_json(&score, stats) (log.rs 91)
Extract ==
    /\ e_pc = "in"
    /\ e_out' = extract_all_from_json(e_score, e_json)
    /\ e_pc' = "done"
    /\ UNCHANGED <<e_score, e_json>>
    /\ UNCHANGED notExtract

(***************************************************************************)
(* SpecText: SteamID::from_str on a text of any form, and on the legacy    *)
(* text to_id1_string writes for a SteamID.                                *)
(***************************************************************************)
\* SteamID::to_id1_string (steam_id.rs 118-129)
to_id1_string(id64) ==
    LET id == AsU32(id64)
    IN <<"S", "T", "E", "A", "M", "_">>
         \o ToDecimal(universe(id64))
         \o <<":">>
         \o ToDecimal(ToNat(And(id, BitsOf(1))))
         \o <<":">>
         \o ToDecimal(ToNat(Shr(id, 1)))

\* the characters of "4294967295" and "4294967296", u32::MAX and the number
\* after it
U32MaxText == <<"4", "2", "9", "4", "9", "6", "7", "2", "9", "5">>
U32OverText == <<"4", "2", "9", "4", "9", "6", "7", "2", "9", "6">>

\* bracketed texts: every type character of the table and two outside it,
\* low bits 0, 1, 2 and a letter, upper parts that are u32 numbers, a
\* number too large, a letter, nothing
TypeChars == {"I", "U", "M", "G", "A", "P", "C", "g", "T", "L", "c", "a",
              "x", "1"}
LowParts == {<<"0">>, <<"1">>, <<"2">>, <<"b">>}
UpperParts == {<<"0">>, <<"1">>, <<"5">>, U32MaxText, U32OverText, <<"x">>,
               <<>>}

BracketText(c, low, upper) ==
    <<"[", c, ":">> \o low \o <<":">> \o upper \o <<"]">>

BracketTexts ==
    {BracketText(c, low, upper) :
        c \in TypeChars, low \in LowParts, upper \in UpperParts}

\* decimal texts: 0 (an invalid bit pattern), the id64 of account 1 of the
\* Public universe, 2^64 - 1 and 2^64
DecimalTexts ==
    {<<"0">>,
     <<"7", "6", "5", "6", "1", "1", "9", "7", "9", "6", "0", "2", "6", "5",
       "7", "2", "9">>,
     <<"1", "8", "4", "4", "6", "7", "4", "4", "0", "7", "3", "7", "0", "9",
       "5", "5", "1", "6", "1", "5">>,
     <<"1", "8", "4", "4", "6", "7", "4", "4", "0", "7", "3", "7", "0", "9",
       "5", "5", "1", "6", "1", "6">>}

\* texts of no known form, and bracketed ones with the wrong number of
\* parts or a part of the wrong length
OtherTexts ==
    {<<>>, <<"a", "b", "c">>, <<"-", "1">>, <<"[", "]">>,
     <<"[", "U", ":", "1", "]">>,
     <<"[", "U", "U", ":", "1", ":", "1", "]">>,
     <<"[", "U", ":", "1", "0", ":", "1", "]">>,
     <<"[", "U", ":", "1", ":", "1", ":", "1", "]">>,
     <<"[", "U", ":", "1", ":", "1">>,
     <<"S", "T", "E", "A", "M", "_">>,
     <<"S", "T", "E", "A", "M", "_", "0", ":", "1", ":", "x">>}

TextInputs == BracketTexts \cup DecimalTexts \cup OtherTexts

TextOff ==
    /\ t_pc = "off"
    /\ t_src = NoResult
    /\ t_text = <<>>
    /\ t_res = NoResult

\* either a text, or a valid SteamID to write the legacy text of
TextInit ==
    /\ t_res = NoResult
    /\ \/ /\ t_pc = "text"
          /\ t_src = NoResult
          /\ t_text \in TextInputs
       \/ /\ t_pc = "id"
          /\ t_src \in {new_checked(x) : x \in SteamInputs}
          /\ t_src.kind = "ok"
          /\ t_text = <<>>

\* SteamID::to_id1_string
ToId1 ==
    /\ t_pc = "id"
    /\ t_text' = to_id1_string(t_src.id64)
    /\ t_pc' = "text"
    /\ UNCHANGED <<t_src, t_res>>
    /\ UNCHANGED notText

\* SteamID::from_str(t_text)
FromStr ==
    /\ t_pc = "text"
    /\ t_res' = from_str(t_text)
    /\ t_pc' = "done"
    /\ UNCHANGED <<t_src, t_text>>
    /\ UNCHANGED notText

(***************************************************************************)
(* SpecQuery: get_class_performance (sql_db.rs 317-441) on a dm_stats      *)
(* table of any content.  A row read from a table keeps the steam_id of    *)
(* its player, which the Performance built from it does not hold.          *)
(***************************************************************************)
QueryLogIds == {1, 2}
QueryClasses == {"scout", "medic"}
QueryLimits == {0, 1, 2}

DmRows == [log_id : QueryLogIds, steam_id : SteamIds, class : QueryClasses]

\* table overall_stats: add_log inserts a row for a Performance::Overall,
\* which extract_all_from_json never builds
overall_stats == {}

\* table med_stats: the row of the Medic entry, stored with the dm_stats row
\* of the Medic class of a player
med_stats ==
    {[log_id |-> r.log_id, steam_id |-> r.steam_id] :
        r \in {x \in dm_stats : x.class = "medic"}}

\* the Result of the call: "none" while it runs, "err" for the Err of a
\* failed query, "panic"; no map is returned with these
Answer(kind) == [kind |-> kind, map |-> <<>>]

\* lines 330-340: SELECT log_id FROM dm_stats WHERE steam_id=$1 AND class=$2
\* ORDER BY log_id DESC LIMIT $3
SelectLogIds(user, class, limit) ==
    LET ids == DescSeq({r.log_id : r \in {x \in dm_stats :
                            x.steam_id = user /\ x.class = class}})
    IN SubSeq(ids, 1, IF limit < Len(ids) THEN limit ELSE Len(ids))

\* lines 346-435: the three SELECTs of one iteration, each WHERE log_id=$1
LogPerformances(id) ==
    {[kind |-> "Overall", steam_id |-> r.steam_id, class |-> "none"] :
        r \in {x \in overall_stats : x.log_id = id}}
    \cup {[kind |-> "DM", steam_id |-> r.steam_id, class |-> r.class] :
        r \in {x \in dm_stats : x.log_id = id}}
    \cup {[kind |-> "Med", steam_id |-> r.steam_id, class |-> "medic"] :
        r \in {x \in med_stats : x.log_id = id}}

QueryOff ==
    /\ q_pc = "off"
    /\ dm_stats = {}
    /\ q_call = [user |-> 0, class |-> "none", limit |-> 0]
    /\ q_log_ids = <<>>
    /\ q_performances = <<>>
    /\ q_res = Answer("none")

QueryInit ==
    /\ q_pc = "call"
    /\ dm_stats \in SUBSET DmRows
    /\ q_call = [user |-> 0, class |-> "none", limit |-> 0]
    /\ q_log_ids = <<>>
    /\ q_performances = <<>>
    /\ q_res = Answer("none")

\* lines 324-340: the query for the log ids; ~db_ok: it fails and the ?
\* operator returns the error
QueryLogIdsStep(user, class, limit, db_ok) ==
    /\ q_pc = "call"
    /\ q_call' = [user |-> user, class |-> class, limit |-> limit]
    /\ IF db_ok
       THEN /\ q_log_ids' = SelectLogIds(user, class, limit)
            /\ q_pc' = "collect"
            /\ UNCHANGED q_res
       ELSE /\ q_res' = Answer("err")
            /\ q_pc' = "done"
            /\ UNCHANGED q_log_ids
    /\ UNCHANGED <<dm_stats, q_performances>>
    /\ UNCHANGED notQuery

\* lines 343-438, one iteration of the for loop
CollectLog(db_ok) ==
    /\ q_pc = "collect"
    /\ q_log_ids # <<>>
    /\ IF db_ok
       THEN /\ q_performances' =
                  [id \in DOMAIN q_performances \cup {Head(q_log_ids)} |->
                      IF id = Head(q_log_ids)
                      THEN LogPerformances(id)
                      ELSE q_performances[id]]
            /\ q_log_ids' = Tail(q_log_ids)
            /\ UNCHANGED <<q_pc, q_res>>
       ELSE /\ q_res' = Answer("err")
            /\ q_pc' = "done"
            /\ UNCHANGED <<q_log_ids, q_performances>>
    /\ UNCHANGED <<dm_stats, q_call>>
    /\ UNCHANGED notQuery

\* line 440: todo!() after the loop
QueryTodo ==
    /\ q_pc = "collect"
    /\ q_log_ids = <<>>
    /\ q_res' = Answer("panic")
    /\ q_pc' = "done"
    /\ UNCHANGED <<dm_stats, q_call, q_log_ids, q_performances>>
    /\ UNCHANGED notQuery

Init ==
    /\ SyncInit /\ DedupOff /\ SteamOff /\ RetryOff
    /\ ExtractOff /\ TextOff /\ QueryOff

InitDedup ==
    /\ SyncInit /\ DedupInit /\ SteamOff /\ RetryOff
    /\ ExtractOff /\ TextOff /\ QueryOff

InitSteam ==
    /\ SyncInit /\ DedupOff /\ SteamInit /\ RetryOff
    /\ ExtractOff /\ TextOff /\ QueryOff

NextSteam == Decode \/ Encode \/ ToId3 \/ Parse

InitRetry ==
    /\ SyncInit /\ DedupOff /\ SteamOff /\ RetryInit
    /\ ExtractOff /\ TextOff /\ QueryOff

NextRetry ==
    \/ \E n \in RetryCounts : SearchLogs(n)
    \/ LogDelay
    \/ \E o \in Outcomes : SendSearch(o)
    \/ KeepTryingCheck
    \/ \E n \in RetryCounts, o \in Outcomes : Download(n, o)

\* no logs_tf call is running; the build is either one
RetryOffAnyBuild ==
    /\ r_pc = "off"
    /\ r_op = "none"
    /\ overflow_checks \in BOOLEAN
    /\ num_retries = 0
    /\ num_tries = 0
    /\ r_res = "none"
    /\ r_result = "none"
    /\ r_calls = 0
    /\ r_delayed = FALSE
    /\ r_undelayed = 0

InitTally ==
    /\ TallyInit /\ DedupOff /\ SteamOff /\ RetryOff
    /\ ExtractOff /\ TextOff /\ QueryOff

NextTally ==
    \/ \E r \in TallyRatios, w \in TallyWindows, ok \in BOOLEAN :
          UpdateStart(r, w, ok)
    \/ \E u \in SteamIds, ok \in BOOLEAN : FetchUser(u, ok)
    \/ Admit
    \/ \E id \in DOMAIN ExampleArchive, ok \in BOOLEAN,
          f \in 0..(Cardinality(SteamIds) + 1) : DownloadAndAdd(id, ok, f)
    \/ Finish
    \/ Return

InitExtract ==
    /\ SyncInit /\ DedupOff /\ SteamOff /\ RetryOffAnyBuild
    /\ ExtractInit /\ TextOff /\ QueryOff

NextExtract == Extract

InitText ==
    /\ SyncInit /\ DedupOff /\ SteamOff /\ RetryOff
    /\ ExtractOff /\ TextInit /\ QueryOff

NextText == ToId1 \/ FromStr

InitQuery ==
    /\ SyncInit /\ DedupOff /\ SteamOff /\ RetryOff
    /\ ExtractOff /\ TextOff /\ QueryInit

NextQuery ==
    \/ \E user \in SteamIds, class \in QueryClasses, limit \in QueryLimits,
          ok \in BOOLEAN : QueryLogIdsStep(user, class, limit, ok)
    \/ \E ok \in BOOLEAN : CollectLog(ok)
    \/ QueryTodo

(***************************************************************************)
(* The specifications.                                                     *)
(***************************************************************************)
Spec == Init /\ [][Next]_vars

SpecDedup == InitDedup /\ [][NextDedup]_vars

SpecSteam == InitSteam /\ [][NextSteam]_vars

SpecRetry == InitRetry /\ [][NextRetry]_vars

SpecTally == InitTally /\ [][NextTally]_vars

SpecExtract == InitExtract /\ [][NextExtract]_vars

SpecText == InitText /\ [][NextText]_vars

SpecQuery == InitQuery /\ [][NextQuery]_vars

(***************************************************************************)
(* Claims.                                                                 *)
(***************************************************************************)
LogIds == 1..MaxLogs

\* C1: at-most-once persistence.  No log id gets a second row in logs, over
\* any sequence of runs, aborted ones included; a log id that is in the
\* known-id list the run read is neither admitted nor downloaded nor passed
\* to add_log in that run, whatever its ratio; within a run a log id is
\* passed to add_log at most once.
C1_AtMostOnce ==
    /\ \A id \in LogIds : writes[id] <= 1
    /\ \A id \in LogIds : add_log_calls[id] <= 1
    /\ \A id \in Range(known_logs) :
          /\ id \notin DOMAIN new_logs
          /\ id \notin admitted
          /\ downloaded[id] = 0
          /\ add_log_calls[id] = 0

\* a run that has stored a log while a known log, found by a tracked user's
\* search, passes the window and the ratio
C1_Witness ==
    /\ pc = "download"
    /\ \E n \in LogIds : add_log_calls[n] = 1 /\ n \in logs
    /\ \E k \in Range(known_logs) :
          /\ Occurrences(k) >= 1
          /\ num_players[1] <= upstream[k].num_players
          /\ upstream[k].num_players <= num_players[2]
          /\ upstream[k].num_players # 0
          /\ Occurrences(k) * min_ratio[2] >= min_ratio[1] * upstream[k].num_players

\* C2: idempotence.  A run that follows a completed run, with the same
\* roster, thresholds and upstream data, admits no log, downloads none,
\* calls add_log zero times and leaves the stored logs as they were.
C2_Idempotent ==
    repeat =>
        /\ admitted = {}
        /\ to_download = {}
        /\ \A id \in LogIds : downloaded[id] = 0 /\ add_log_calls[id] = 0
        /\ pc \in {"fetch", "download"} => logs = Range(known_logs)

\* the second run got past the filter; the first one stored a log, which a
\* tracked user's search finds again, and rejected another
C2_Witness ==
    /\ repeat
    /\ pc = "download"
    /\ \E k \in logs : Occurrences(k) >= 1
    /\ \E k \in DOMAIN upstream : k \notin logs /\ Occurrences(k) >= 1

\* C3: remove_external_occurrences leaves exactly the elements of target
\* whose id is not in check, in their order, after at most
\* |target| + |check| comparisons.
C3_Dedup ==
    /\ d_st.steps <= Len(d_input) + Len(d_check)
    /\ d_pc = "returned" =>
          d_st.target =
             SelectSeqBy(d_input,
                 {k \in DOMAIN d_input : d_input[k].id \notin Range(d_check)})

\* a returned scan that removed an element and kept one, on sequences of
\* which neither holds all ids of the other
C3_Witness ==
    /\ d_pc = "returned"
    /\ Len(d_st.target) >= 1
    /\ Len(d_st.target) < Len(d_input)
    /\ \E c \in Range(d_check) : \A k \in DOMAIN d_input : d_input[k].id # c

\* C4: after the filter, the admitted logs are the not-yet-known logs found
\* by a tracked user's search whose playerCount is in the window, is not
\* zero, and has occurrences / playerCount >= minRatio.
C4_Admission ==
    pc = "download" =>
        \A id \in DOMAIN upstream :
            (id \notin Range(known_logs) /\ Occurrences(id) >= 1) =>
                (id \in admitted <=>
                    /\ num_players[1] <= upstream[id].num_players
                    /\ upstream[id].num_players <= num_players[2]
                    /\ upstream[id].num_players # 0
                    /\ Occurrences(id) * min_ratio[2]
                          >= min_ratio[1] * upstream[id].num_players)

\* the filter admitted one log and rejected another one that is in the
\* window
C4_Witness ==
    /\ pc = "download"
    /\ admitted # {}
    /\ \E id \in DOMAIN upstream :
          /\ id \notin admitted
          /\ id \notin Range(known_logs)
          /\ Occurrences(id) >= 1
          /\ upstream[id].num_players # 0
          /\ num_players[1] <= upstream[id].num_players
          /\ upstream[id].num_players <= num_players[2]

\* the number in bits lo..hi of a 64-bit value
FieldValue(x, lo, hi) == ToNat({i - lo : i \in x \cap (lo..hi)})

\* a known universe, a known account type, and instance 1
ValidBits(x) ==
    /\ FieldValue(x, 56, 63) \in 0..5
    /\ FieldValue(x, 52, 55) \in (0..8) \cup {10}
    /\ FieldValue(x, 32, 51) = 1

\* C5: new_checked returns Ok exactly for the values whose bits 56-63 are
\* a known universe, whose bits 52-55 are a known account type and whose
\* bits 32-51 are 1, and the error for every other value.
C5_Decode ==
    s_dec # NoResult =>
        /\ ValidBits(s_x) => s_dec = Ok(s_x)
        /\ ~ValidBits(s_x) => s_dec = Err

\* a value refused for its instance alone
C5_Witness ==
    /\ s_dec = Err
    /\ FieldValue(s_x, 56, 63) = 1
    /\ FieldValue(s_x, 52, 55) = 1
    /\ FieldValue(s_x, 32, 51) # 1

\* C6: for a valid value, new_checked succeeds, and from_parts of its
\* universe, its account type and its low 32 bits is the value again.
C6_ReEncode ==
    /\ (s_dec # NoResult /\ ValidBits(s_x)) => s_dec.kind = "ok"
    /\ s_enc # NoResult => s_enc = Ok(s_x)

\* a re-encoded AnonUser id of the RC universe with bit 31 of the account
\* number set
C6_Witness ==
    /\ s_enc # NoResult
    /\ FieldValue(s_x, 56, 63) = 5
    /\ FieldValue(s_x, 52, 55) = 10
    /\ 31 \in s_x

\* C7: for a valid id of the Public universe, from_str of to_id3_string of
\* the id succeeds and returns the id.
C7_Id3RoundTrip ==
    (s_parsed # NoResult /\ FieldValue(s_x, 56, 63) = Public) =>
        s_parsed = Ok(s_x)

\* C8: search_logs and Log::download run under the retry policy: the
\* operation ends with a value or an error value and does not abort on a
\* failed attempt; it returns an error only when the first attempt and
\* num_retries retries have all failed; it returns Ok when an attempt
\* succeeded, and makes no attempt after that.
C8_RetryPolicy ==
    r_pc = "done" =>
        /\ r_result \in {"ok", "err"}
        /\ r_result = "err" => r_calls >= num_retries + 1
        /\ r_res = "ok" <=> r_result = "ok"

\* C9: keep_trying invokes the action at most num_retries + 1 times, and
\* exactly num_retries + 1 times when it returns the error of an action
\* that failed every time.
C9_RetryCount ==
    r_op = "search" =>
        /\ r_calls <= num_retries + 1
        /\ (r_pc = "done" /\ r_result = "err") => r_calls = num_retries + 1

\* C10: no request goes out, for search or download, first attempt or
\* retry, without a log_delay since the previous request or the start of
\* the operation.
C10_CourtesyDelay == r_undelayed = 0

\* add_log returned an error for id in the run that has just ended
AddLogFailed(id) ==
    /\ pc = "returned"
    /\ result = "err"
    /\ add_log_calls[id] >= 1
    /\ id \in to_download

\* C11: when a write fails while add_log stores a log, the error is returned
\* and nothing of the log stays stored: its id is not in the list known_logs
\* returns and no performance row of it remains.
C11_NoPartialLog ==
    \A id \in LogIds :
        AddLogFailed(id) => id \notin Range(KnownLogs) /\ stats[id] = 0

\* C12: a search or a download that fails ends the run at once as a fatal
\* error: no further download or add_log call is made, the logs the run
\* stored before stay stored whole and the others are untouched; the next
\* run, with the same thresholds on the same data, admits exactly the logs
\* the aborted run was to admit and had not stored, and stores them.
C12_AbortAndResume ==
    /\ \A id \in LogIds :
          downloaded[id] > add_log_calls[id] =>
              pc = "returned" /\ result = "panic"
    /\ (pc = "returned" /\ result = "panic") =>
          /\ logs = Range(known_logs) \cup (admitted \ to_download)
          /\ \A id \in admitted \ to_download :
                /\ stats[id] = Performances(id)
                /\ writes[id] = 1
                /\ add_log_calls[id] = 1
          /\ \A id \in to_download :
                stats[id] = 0 /\ writes[id] = 0 /\ add_log_calls[id] = 0
    /\ resumed.on =>
          /\ resumed.kept \subseteq logs
          /\ \A id \in resumed.kept : stats[id] = Performances(id)
          /\ pc = "download" => admitted = resumed.left
          /\ (pc = "returned" /\ result = "ok") =>
                \A id \in resumed.left :
                    /\ id \in logs
                    /\ stats[id] = Performances(id)
                    /\ writes[id] = 1

\* a run that completed after a run that had stored one log and then
\* panicked with another one left
C12_Witness ==
    /\ resumed.on
    /\ resumed.kept # {}
    /\ resumed.left # {}
    /\ pc = "returned"
    /\ result = "ok"

\* the entries of a kind in what extract returned
EntriesOf(kind) ==
    {k \in DOMAIN e_out.entries : e_out.entries[k].kind = kind}

\* the sum of the two scores fits u8
ScoresFit == e_score.red + e_score.blue <= U8Max

\* C13: the sequence extract returns contains exactly one Overall entry,
\* with the aggregate kills, deaths and damage of the player and the generic
\* sub-record, also for a record with no class_stats and no medicstats.
C13_OneOverall ==
    (e_pc = "done" /\ e_out.kind = "ok") =>
        /\ Cardinality(EntriesOf("Overall")) = 1
        /\ \A k \in EntriesOf("Overall") :
              /\ e_out.entries[k].specific.kills
                    = unwrap_or_0(as_u8(e_json.kills))
              /\ e_out.entries[k].specific.deaths
                    = unwrap_or_0(as_u8(e_json.deaths))
              /\ e_out.entries[k].specific.damage
                    = unwrap_or_0(as_u32(e_json.dmg))
              /\ e_out.entries[k].generic.won_rounds
                    = get_score(e_score, Team_from_str(e_json.team))

\* the record has a medicstats block and a class_stats element of Medic
HasMedicBlocks ==
    /\ e_json.medicstats # Null
    /\ \E k \in DOMAIN e_json.class_stats :
          e_json.class_stats[k].type = "medic"

\* C14: extract emits exactly one Medic entry if the record has a medicstats
\* block and a class_stats element of the Medic class, and none if either
\* is absent.
C14_MedicIff ==
    e_pc = "done" =>
        IF HasMedicBlocks
        THEN e_out.kind = "ok" /\ Cardinality(EntriesOf("Med")) = 1
        ELSE EntriesOf("Med") = {}

\* C15: a numeric field missing from the record is read as 0; extraction
\* returns the entries, with 0 for the missing counters, and does not abort
\* because a counter is absent.
C15_MissingIsZero ==
    (e_pc = "done" /\ ScoresFit) =>
        /\ e_out.kind = "ok"
        /\ \A k \in DOMAIN e_out.entries :
              e_out.entries[k].generic.damage_taken
                 = unwrap_or_0(as_u32(e_json.dt))
        /\ \A k \in DOMAIN e_json.class_stats :
              /\ e_out.entries[k].kind = "DM"
              /\ e_out.entries[k].specific.kills
                    = unwrap_or_0(as_u8(e_json.class_stats[k].kills))
              /\ e_out.entries[k].specific.time_played_secs
                    = unwrap_or_0(as_u32(e_json.class_stats[k].total_time))

\* a log of the archive the run has tallied: not in the known-id list the
\* run read, and in the search results of a roster player
Tallied(id) == id \notin Range(known_logs) /\ Occurrences(id) >= 1

\* C16 as stated: with minRatio = 0 every tallied log whose playerCount lies
\* in the window is admitted, whatever its occurrence count, also when the
\* window contains 0.
C16_ZeroRatioAdmitsWindow ==
    (pc = "download" /\ min_ratio = <<0, 1>>) =>
        \A id \in DOMAIN upstream :
            (/\ Tallied(id)
             /\ num_players[1] <= upstream[id].num_players
             /\ upstream[id].num_players <= num_players[2])
                => id \in admitted

\* C16 amended: with minRatio = 0 every tallied log whose playerCount lies
\* in the window and is not zero is admitted, whatever its occurrence
\* count; a log whose playerCount is zero is not, also when the window
\* contains 0.
C16_ZeroRatioAdmitsNonZero ==
    (pc = "download" /\ min_ratio = <<0, 1>>) =>
        \A id \in DOMAIN upstream :
            Tallied(id) =>
                (id \in admitted <=>
                    /\ num_players[1] <= upstream[id].num_players
                    /\ upstream[id].num_players <= num_players[2]
                    /\ upstream[id].num_players # 0)

\* a run with minRatio = 0 and a window that contains 0 admitted a log one
\* of whose players out of two or more is on the roster, and rejected a
\* tallied log with playerCount 0
C16_Witness ==
    /\ pc = "download"
    /\ min_ratio = <<0, 1>>
    /\ num_players[1] = 0
    /\ \E id \in admitted :
          Occurrences(id) = 1 /\ upstream[id].num_players >= 2
    /\ \E id \in DOMAIN upstream :
          Tallied(id) /\ upstream[id].num_players = 0 /\ id \notin admitted

\* 0 <= min_ratio <= 1 is not true
RatioOutOfRange == min_ratio[1] < 0 \/ min_ratio[1] > min_ratio[2]

\* C17: update called with a min_ratio outside [0, 1] panics before it
\* fetches, admits or persists anything.
C17_RatioRangePanics ==
    RatioOutOfRange =>
        /\ pc = "returned"
        /\ result = "panic"
        /\ user_ids = {}
        /\ new_logs = <<>>
        /\ admitted = {}
        /\ \A id \in LogIds : downloaded[id] = 0 /\ add_log_calls[id] = 0

\* texts that are no SteamID: a decimal with an invalid bit pattern or too
\* large for u64, a bracketed text whose low bit is not 0 or 1, whose upper
\* part is no u32 or whose type character is not in the table, and the
\* texts of no known form
MalformedTexts ==
    {<<"0">>,
     <<"1", "8", "4", "4", "6", "7", "4", "4", "0", "7", "3", "7", "0", "9",
       "5", "5", "1", "6", "1", "6">>}
    \cup {BracketText(c, low, upper) :
            c \in TypeChars, low \in {<<"2">>, <<"b">>}, upper \in UpperParts}
    \cup {BracketText(c, low, upper) :
            c \in TypeChars, low \in LowParts,
            upper \in {U32OverText, <<"x">>, <<>>}}
    \cup {BracketText(c, low, upper) :
            c \in {"x", "1"}, low \in LowParts, upper \in UpperParts}
    \cup {t \in OtherTexts : ~StartsWith(t, <<"S", "T", "E", "A", "M", "_">>)}

\* C18: from_str returns a SteamID or the error for every text and never
\* aborts; the malformed texts give the error.
C18_ParseNeverAborts ==
    t_pc = "done" =>
        /\ t_res.kind \in {"ok", "err"}
        /\ t_text \in MalformedTexts => t_res.kind = "err"

\* C19: from_str accepts the legacy text: parsing what to_id1_string writes
\* for a valid SteamID gives a SteamID of the universe written in the text
\* and of the same account number.
C19_LegacyRoundTrip ==
    (t_pc = "done" /\ t_src.kind = "ok") =>
        /\ t_res.kind = "ok"
        /\ universe(t_res.id64) = universe(t_src.id64)
        /\ AsU32(t_res.id64) = AsU32(t_src.id64)

\* what one step of add_user or remove_user, as recorded in roster_call, is
\* to do to the roster and to return
C20_Step ==
    LET c == roster_call'
        unique == \A u \in users :
                     u.steam_id # c.steam_id /\ u.discord_id # c.discord_id
        present == \E u \in users : u.steam_id = c.steam_id
    IN /\ \A u, v \in users' :
             (u.steam_id = v.steam_id \/ u.discord_id = v.discord_id) => u = v
       /\ c.op = "add_user" =>
             /\ c.ret = "true" =>
                   /\ unique
                   /\ users' = users \cup {[steam_id |-> c.steam_id,
                                            discord_id |-> c.discord_id]}
             /\ c.ret = "false" => ~unique /\ users' = users
             /\ c.ret = "err" => users' = users
       /\ c.op = "remove_user" =>
             /\ c.ret = "true" =>
                   /\ present
                   /\ users' = {u \in users : u.steam_id # c.steam_id}
                   /\ Cardinality(users') = Cardinality(users) - 1
             /\ c.ret = "false" => ~present /\ users' = users
             /\ c.ret = "err" => users' = users
       /\ c.op # "none" =>
             logs' = logs /\ stats' = stats /\ writes' = writes

\* C20: no two roster entries share a steam id or a discord id; add_user
\* returns true and adds the pair when neither id is on the roster, else
\* returns false and changes nothing; remove_user returns true exactly when
\* the steam id was on the roster, removes that entry only, and leaves the
\* stored logs and statistics as they were.  A call the database fails
\* returns the error and changes nothing.
C20_Roster == [][C20_Step]_vars

\* remove_user returned true with another player left on the roster and a
\* log with its statistics in the store
C20_Witness ==
    /\ roster_call.op = "remove_user"
    /\ roster_call.ret = "true"
    /\ users # {}
    /\ \E id \in logs : stats[id] >= 1


\* one iteration of the scan is taken in this step
ScanIteration == d_pc = "scan" /\ d_st' # d_st

\* the candidate and the known id the iteration compares
Candidate == d_st.target[d_st.target_i].id
Known == d_check[d_st.check_i]

\* the candidate under the pointer is removed / kept, and the pointers of
\* the candidates and of the known ids move on by one or stay
CandidateRemoved == d_st'.target = RemoveAt(d_st.target, d_st.target_i)
CandidateKept == d_st'.target = d_st.target
CandidatePointerMoves == d_st'.target_i = d_st.target_i - 1
CandidatePointerStays == d_st'.target_i = d_st.target_i
KnownPointerMoves == d_st'.check_i = d_st.check_i - 1
KnownPointerStays == d_st'.check_i = d_st.check_i

\* C23 as stated: on equal ids the candidate is removed and both pointers
\* advance; a greater candidate is retained and only the candidate pointer
\* advances; on a lesser candidate only the known pointer advances.
C23_StatedStep ==
    ScanIteration =>
        /\ Candidate = Known =>
              CandidateRemoved /\ CandidatePointerMoves /\ KnownPointerMoves
        /\ Candidate > Known =>
              CandidateKept /\ CandidatePointerMoves /\ KnownPointerStays
        /\ Candidate < Known =>
              CandidateKept /\ CandidatePointerStays /\ KnownPointerMoves

C23_ScanAsStated == [][C23_StatedStep]_vars

\* C23 amended: the scan runs from the low end of both sequences; on equal
\* ids the candidate is removed and only the candidate pointer moves on; a
\* lesser candidate is retained and only the candidate pointer moves on; on
\* a greater candidate only the known pointer moves on.
C23_BackToFrontStep ==
    ScanIteration =>
        /\ Candidate = Known =>
              CandidateRemoved /\ CandidatePointerMoves /\ KnownPointerStays
        /\ Candidate < Known =>
              CandidateKept /\ CandidatePointerMoves /\ KnownPointerStays
        /\ Candidate > Known =>
              CandidateKept /\ CandidatePointerStays /\ KnownPointerMoves

C23_ScanBackToFront == [][C23_BackToFrontStep]_vars

\* a returned scan in which each of the three cases was taken: an element
\* was removed, the known pointer moved, and the other comparisons moved
\* the candidate pointer past an element that stays
C23_Witness ==
    LET removed == Len(d_input) - Len(d_st.target)
        known_moves == Len(d_check) - d_st.check_i
    IN /\ d_pc = "returned"
       /\ removed >= 1
       /\ known_moves >= 1
       /\ d_st.steps - removed - known_moves >= 1


\* the roster players whose search results the run has tallied
Searched == Users \ user_ids

\* the logs of the archive the search of u lists that the run does not know
\* as stored and that lie in the window of the run
OwnNewLogs(u) ==
    {id \in DOMAIN upstream :
        /\ u \in upstream[id].participants
        /\ id \notin Range(known_logs)
        /\ num_players[1] <= upstream[id].num_players
        /\ upstream[id].num_players <= num_players[2]}

\* the run works on ExampleArchive with log 1 known and the window 2..=12
ExampleRun ==
    /\ upstream = ExampleArchive
    /\ known_logs = <<1>>
    /\ num_players = <<2, 12>>

\* C22: in the fetch phase the tally holds, for each log a searched roster
\* player's own new logs contain, the LogMetadata and a counter equal to the
\* number of searched players whose own new logs contain it, at most the size
\* of the roster; in the example the tally is 105 -> 2, 102 -> 1 and, with
\* min_ratio 1/2, the admitted set is {105} (logs 3 and 2 of the model).
C22_Tally ==
    /\ pc = "fetch" =>
          /\ DOMAIN new_logs = UNION {OwnNewLogs(u) : u \in Searched}
          /\ \A id \in DOMAIN new_logs :
                /\ new_logs[id].meta = LogMetadata(id)
                /\ new_logs[id].occ
                      = Cardinality({u \in Searched : id \in OwnNewLogs(u)})
                /\ new_logs[id].occ <= Cardinality(Users)
    /\ (pc = "fetch" /\ user_ids = {} /\ ExampleRun) =>
          /\ DOMAIN new_logs = {2, 3}
          /\ new_logs[3].occ = 2
          /\ new_logs[2].occ = 1
    /\ (pc = "download" /\ ExampleRun /\ min_ratio = <<1, 2>>) =>
          admitted = {3}

\* the run of the example after its fetch phase: both players searched, log
\* 105 admitted and log 102 not
C22_Witness ==
    /\ pc = "download"
    /\ ExampleRun
    /\ min_ratio = <<1, 2>>
    /\ Users = {1, 2}
    /\ admitted = {3}
    /\ DOMAIN new_logs = {3}
    /\ new_logs[3].occ = 2


\* C24: extract emits one ClassSpecific (DM) entry per element of
\* class_stats, in the order of the block, each with the class, kills,
\* assists, deaths, damage and seconds played of its element; a player who
\* played Medic gets the DM entry of Medic and the Medic entry.
C24_OnePerClass ==
    e_pc = "done" =>
        /\ e_out.kind = "ok"
        /\ Cardinality(EntriesOf("DM")) = Len(e_json.class_stats)
        /\ \A k \in DOMAIN e_json.class_stats :
              /\ e_out.entries[k].kind = "DM"
              /\ e_out.entries[k].specific.class
                    = Class_from_str(e_json.class_stats[k].type)
              /\ e_out.entries[k].specific.kills
                    = unwrap_or_0(as_u8(e_json.class_stats[k].kills))
              /\ e_out.entries[k].specific.assists
                    = unwrap_or_0(as_u8(e_json.class_stats[k].assists))
              /\ e_out.entries[k].specific.deaths
                    = unwrap_or_0(as_u8(e_json.class_stats[k].deaths))
              /\ e_out.entries[k].specific.damage
                    = unwrap_or_0(as_u32(e_json.class_stats[k].dmg))
              /\ e_out.entries[k].specific.time_played_secs
                    = unwrap_or_0(as_u32(e_json.class_stats[k].total_time))
        /\ HasMedicBlocks =>
              /\ \E k \in EntriesOf("DM") :
                    e_out.entries[k].specific.class = "medic"
              /\ EntriesOf("Med") # {}

\* C25: the entries extract returns for a player all carry the same generic
\* part, the one computed from the score and the record of the player.
C25_SameGeneric ==
    (e_pc = "done" /\ e_out.kind = "ok") =>
        /\ \A j, k \in DOMAIN e_out.entries :
              e_out.entries[j].generic = e_out.entries[k].generic
        /\ \A k \in DOMAIN e_out.entries :
              e_out.entries[k].generic
                 = GenericPerformance_from_json(e_score, e_json)

\* entries of both variants for one player, from a record with damage taken
C25_Witness ==
    /\ e_pc = "done"
    /\ e_out.kind = "ok"
    /\ EntriesOf("DM") # {}
    /\ EntriesOf("Med") # {}
    /\ \A k \in DOMAIN e_out.entries : e_out.entries[k].generic.damage_taken > 0

\* damage taken and every counter of every class_stats element are there
CountersPresent ==
    /\ e_json.dt # Null
    /\ \A k \in DOMAIN e_json.class_stats :
          /\ e_json.class_stats[k].kills # Null
          /\ e_json.class_stats[k].total_time # Null

\* C26: for every pair of u8 scores and either team, extraction returns and
\* the generic part has the score of the player's team as rounds won and the
\* exact sum of both scores as total rounds.
C26_ExactRounds ==
    (e_pc = "done" /\ CountersPresent) =>
        /\ e_out.kind = "ok"
        /\ \A k \in DOMAIN e_out.entries :
              /\ e_out.entries[k].generic.won_rounds
                    = get_score(e_score, Team_from_str(e_json.team))
              /\ e_out.entries[k].generic.num_rounds
                    = e_score.red + e_score.blue


\* the most recent logs, at most limit of them, in which the user of the
\* call played its class
RecentLogsOf(call) ==
    LET played == {r.log_id : r \in {x \in dm_stats :
                       x.steam_id = call.user /\ x.class = call.class}}
    IN {id \in played :
           Cardinality({newer \in played : newer > id}) < call.limit}

\* C21: get_class_performance returns, unless the database fails, a result
\* with at most limit logs, the most recent ones in which user played class,
\* and the performances it holds for each of them are those of user only.
C21_ClassPerformance ==
    q_pc = "done" =>
        /\ q_res.kind \in {"ok", "err"}
        /\ q_res.kind = "ok" =>
              /\ Cardinality(DOMAIN q_res.map) <= q_call.limit
              /\ DOMAIN q_res.map = RecentLogsOf(q_call)
              /\ \A id \in DOMAIN q_res.map :
                    \A perf \in q_res.map[id] : perf.steam_id = q_call.user

=============================================================================
